---- MODULE Spec2Model ----
(***************************************************************************)
(* Model of azffmpeg/__init__.py: the HTTP-triggered function main(req)    *)
(* that downloads a blob, runs ffmpeg on it and uploads the result.        *)
(*                                                                         *)
(* Text values (URLs, the ffmpeg command, paths) are sequences of          *)
(* one-character strings, so that urlparse, str.split, str.strip and       *)
(* shlex.split are computed character by character as Python does.         *)
(***************************************************************************)
EXTENDS Integers, Sequences, FiniteSets, TLC

(***************************************************************************)
(* Bounds of the model.                                                    *)
(***************************************************************************)
\* Number of invocations of main the host may run concurrently.
NumInvocations == 2
\* Number of different directory names tempfile.mkdtemp returns.
NumTempNames == 2
\* Longest host part of the URLs enumerated for the locator parser.
MaxHostLen == 2
\* Longest path part of the URLs enumerated for the locator parser.
MaxPathLen == 4
\* Longest ffmpegCommand enumerated for the tokenizer.
MaxCmdLen == 4
\* Number of blocks upload_blob sends a file in when it does not send it
\* in one request.
NumBlocks == 2

(***************************************************************************)
(* Python str helpers.                                                     *)
(***************************************************************************)
\* All sequences over alphabet A of length 0..n.
RECURSIVE SeqsUpTo(_, _)
SeqsUpTo(A, n) ==
    IF n = 0 THEN {<<>>}
    ELSE LET shorter == SeqsUpTo(A, n - 1)
         IN  shorter \cup {Append(s, c) : s \in {t \in shorter : Len(t) = n - 1}, c \in A}

\* s[a:b] of Python with 1-based inclusive bounds; empty when a > b.
Slice(s, a, b) == IF a > b THEN <<>> ELSE SubSeq(s, a, b)

\* str.find(c, start): the first index >= start holding c, or 0 when there is none.
Find(s, c, start) ==
    LET hits == {k \in start..Len(s) : s[k] = c}
    IN  IF hits = {} THEN 0 ELSE CHOOSE k \in hits : \A m \in hits : k <= m

\* str.rfind(c): the last index holding c, or 0.
RFind(s, c) ==
    LET hits == {k \in 1..Len(s) : s[k] = c}
    IN  IF hits = {} THEN 0 ELSE CHOOSE k \in hits : \A m \in hits : k >= m

\* str.strip(c) for a single character c.
RECURSIVE LStrip(_, _)
LStrip(s, c) == IF s # <<>> /\ Head(s) = c THEN LStrip(Tail(s), c) ELSE s
RECURSIVE RStrip(_, _)
RStrip(s, c) ==
    IF s # <<>> /\ s[Len(s)] = c THEN RStrip(SubSeq(s, 1, Len(s) - 1), c) ELSE s
Strip(s, c) == RStrip(LStrip(s, c), c)

\* str.split(c): the pieces between occurrences of c; ''.split(c) is [''].
RECURSIVE Split(_, _)
Split(s, c) ==
    LET k == Find(s, c, 1)
    IN  IF k = 0 THEN <<s>>
        ELSE <<Slice(s, 1, k - 1)>> \o Split(Slice(s, k + 1, Len(s)), c)

\* c.join(parts)
RECURSIVE Join(_, _)
Join(parts, c) ==
    IF parts = <<>> THEN <<>>
    ELSE IF Len(parts) = 1 THEN parts[1]
    ELSE parts[1] \o <<c>> \o Join(Tail(parts), c)

LowerAlphabet ==
    <<"a", "b", "c", "d", "e", "f", "g", "h", "i", "j", "k", "l",
      "m", "n", "o", "p", "q", "r", "s", "t", "u", "v", "w", "x", "y", "z">>
UpperAlphabet ==
    <<"A", "B", "C", "D", "E", "F", "G", "H", "I", "J", "K", "L",
      "M", "N", "O", "P", "Q", "R", "S", "T", "U", "V", "W", "X", "Y", "Z">>
LowerLetters == {LowerAlphabet[k] : k \in 1..Len(LowerAlphabet)}
UpperLetters == {UpperAlphabet[k] : k \in 1..Len(UpperAlphabet)}
Digits == {"0", "1", "2", "3", "4", "5", "6", "7", "8", "9"}
\* urllib.parse.scheme_chars
SchemeChars == LowerLetters \cup UpperLetters \cup Digits \cup {"+", "-", "."}

\* str.lower() / str.upper() on one character.
LowerChar(c) ==
    IF c \in UpperLetters
    THEN LowerAlphabet[CHOOSE k \in 1..Len(UpperAlphabet) : UpperAlphabet[k] = c]
    ELSE c
UpperChar(c) ==
    IF c \in LowerLetters
    THEN UpperAlphabet[CHOOSE k \in 1..Len(LowerAlphabet) : LowerAlphabet[k] = c]
    ELSE c
Lower(s) == [k \in 1..Len(s) |-> LowerChar(s[k])]
Upper(s) == [k \in 1..Len(s) |-> UpperChar(s[k])]

(***************************************************************************)
(* urllib.parse.urlparse, as main uses it: the netloc and the path.        *)
(* Covers URLs over letters, digits, the delimiters : / ? # ; . + - and    *)
(* an opening bracket (no whitespace or control characters, and no netloc  *)
(* with both brackets, whose check differs between Python versions).       *)
(***************************************************************************)
\* The scheme prefix, when the text before the first ':' is a scheme.
HasScheme(url) ==
    LET i == Find(url, ":", 1)
    IN  /\ i > 1
        /\ url[1] \in LowerLetters \cup UpperLetters
        /\ \A k \in 1..(i - 1) : url[k] \in SchemeChars

UrlScheme(url) == IF HasScheme(url) THEN Lower(Slice(url, 1, Find(url, ":", 1) - 1)) ELSE <<>>

AfterScheme(url) ==
    IF HasScheme(url) THEN Slice(url, Find(url, ":", 1) + 1, Len(url)) ELSE url

\* _splitnetloc(url, 2): the end of the domain part is the first of / ? #.
NetlocEnd(rest) ==
    LET ds == {k \in 3..Len(rest) : rest[k] \in {"/", "?", "#"}}
    IN  IF ds = {} THEN Len(rest) + 1 ELSE CHOOSE k \in ds : \A m \in ds : k <= m

\* str.split(c, 1)[0]
Before(s, c) == IF Find(s, c, 1) = 0 THEN s ELSE Slice(s, 1, Find(s, c, 1) - 1)

\* _splitparams(url)[0]
SplitParams(url) ==
    IF Find(url, "/", 1) # 0
    THEN LET i == Find(url, ";", RFind(url, "/"))
         IN  IF i = 0 THEN url ELSE Slice(url, 1, i - 1)
    ELSE Slice(url, 1, Find(url, ";", 1) - 1)

\* urllib.parse.uses_params
UsesParams ==
    {<<>>,
     <<"f", "t", "p">>,
     <<"h", "d", "l">>,
     <<"p", "r", "o", "s", "p", "e", "r", "o">>,
     <<"h", "t", "t", "p">>,
     <<"i", "m", "a", "p">>,
     <<"h", "t", "t", "p", "s">>,
     <<"s", "h", "t", "t", "p">>,
     <<"r", "t", "s", "p">>,
     <<"r", "t", "s", "p", "s">>,
     <<"r", "t", "s", "p", "u">>,
     <<"s", "i", "p">>,
     <<"s", "i", "p", "s">>,
     <<"m", "m", "s">>,
     <<"s", "f", "t", "p">>,
     <<"t", "e", "l">>}

urlparse(url) ==
    LET rest    == AfterScheme(url)
        hasNet  == Len(rest) >= 2 /\ rest[1] = "/" /\ rest[2] = "/"
        netloc  == IF hasNet THEN Slice(rest, 3, NetlocEnd(rest) - 1) ELSE <<>>
        tail    == IF hasNet THEN Slice(rest, NetlocEnd(rest), Len(rest)) ELSE rest
        noQuery == Before(Before(tail, "#"), "?")
        scheme  == UrlScheme(url)
        path    == IF scheme \in UsesParams /\ Find(noQuery, ";", 1) # 0
                   THEN SplitParams(noQuery) ELSE noQuery
    IN  [scheme |-> scheme, netloc |-> netloc, path |-> path]

Has(s, c) == Find(s, c, 1) # 0

\* urlsplit raises ValueError("Invalid IPv6 URL") on a netloc with one
\* bracket and not the other.
UrlParseRaises(url) ==
    LET netloc == urlparse(url).netloc
    IN  \/ Has(netloc, "[") /\ ~Has(netloc, "]")
        \/ Has(netloc, "]") /\ ~Has(netloc, "[")

(***************************************************************************)
(* The source locator, lines 52-67 of main: account, container, blob path. *)
(***************************************************************************)
\* parsed_url.netloc.split('.')[0]
AccountName(url) == Split(urlparse(url).netloc, ".")[1]

\* parsed_url.path.strip('/').split('/')
PathParts(url) == Split(Strip(urlparse(url).path, "/"), "/")

\* if not path_parts or len(path_parts) < 2: the URL is refused.
InvalidBlobUrl(url) == PathParts(url) = <<>> \/ Len(PathParts(url)) < 2

\* input_account_name, input_container_name, input_blob_name
ParseInputUrl(url) ==
    [account   |-> AccountName(url),
     container |-> PathParts(url)[1],
     blob      |-> Join(Tail(PathParts(url)), "/")]

(***************************************************************************)
(* The destination locator, lines 151-153: account and container only.     *)
(***************************************************************************)
\* A destination locator that keeps the whole path of the URL.
ParseOutputUrlWholePath(url) ==
    [account   |-> AccountName(url),
     container |-> Strip(urlparse(url).path, "/")]

ParseOutputUrl(url) ==
    [account   |-> AccountName(url),
     container |-> PathParts(url)[1]]

(***************************************************************************)
(* shlex.split(ffmpeg_command): POSIX mode, whitespace_split, no comments. *)
(* The tokenizer's states are those of shlex.read_token: "ws" is its ' '   *)
(* state, "a" its word state, a quote character the state inside that      *)
(* quote, the backslash the state after an escape.                         *)
(***************************************************************************)
\* shlex.whitespace: blank, tab, carriage return, line feed
Whitespace == {" ", "\t", "\r", "\n"}
Quotes == {"\"", "'"}
Escape == "\\"
\* shlex.escapedquotes: the quotes inside which the escape character acts.
EscapedQuotes == {"\""}

\* The tokens read so far plus the current one, when read_token emits it.
Emit(out, tok, quoted) == IF tok # <<>> \/ quoted THEN Append(out, tok) ELSE out

RECURSIVE ShlexRun(_, _, _, _, _, _, _)
ShlexRun(s, k, state, escapedstate, tok, quoted, out) ==
    IF k > Len(s)
    THEN \* end of input
         IF state \in Quotes \/ state = Escape
         THEN [ok |-> FALSE, tokens |-> <<>>]
         ELSE [ok |-> TRUE, tokens |-> Emit(out, tok, quoted)]
    ELSE LET c == s[k] IN
         CASE state = "ws" ->
                IF c \in Whitespace THEN ShlexRun(s, k + 1, "ws", escapedstate, tok, quoted, out)
                ELSE IF c = Escape THEN ShlexRun(s, k + 1, c, "a", tok, quoted, out)
                ELSE IF c \in Quotes THEN ShlexRun(s, k + 1, c, escapedstate, tok, quoted, out)
                ELSE ShlexRun(s, k + 1, "a", escapedstate, <<c>>, quoted, out)
           [] state \in Quotes ->
                IF c = state THEN ShlexRun(s, k + 1, "a", escapedstate, tok, TRUE, out)
                ELSE IF c = Escape /\ state \in EscapedQuotes
                     THEN ShlexRun(s, k + 1, c, state, tok, TRUE, out)
                ELSE ShlexRun(s, k + 1, state, escapedstate, Append(tok, c), TRUE, out)
           [] state = Escape ->
                LET kept == IF escapedstate \in Quotes /\ c # Escape /\ c # escapedstate
                            THEN Append(tok, Escape) ELSE tok
                IN  ShlexRun(s, k + 1, escapedstate, escapedstate, Append(kept, c), quoted, out)
           [] OTHER -> \* state = "a"
                IF c \in Whitespace
                THEN ShlexRun(s, k + 1, "ws", " ", <<>>, FALSE, Emit(out, tok, quoted))
                ELSE IF c \in Quotes THEN ShlexRun(s, k + 1, c, escapedstate, tok, quoted, out)
                ELSE IF c = Escape THEN ShlexRun(s, k + 1, c, "a", tok, quoted, out)
                ELSE ShlexRun(s, k + 1, "a", escapedstate, Append(tok, c), quoted, out)

\* A split at blanks, which accepts every text.
shlex_split_blanks(s) ==
    [ok |-> TRUE, tokens |-> SelectSeq(Split(s, " "), LAMBDA t : t # <<>>)]

\* shlex.split(s): ok is FALSE where it raises ValueError (no closing
\* quotation, no escaped character).
shlex_split(s) == ShlexRun(s, 1, "ws", " ", <<>>, FALSE, <<>>)

(***************************************************************************)
(* Text constants of main.                                                 *)
(***************************************************************************)
\* dir='/tmp' of tempfile.mkdtemp, with the separator os.path.join adds.
TmpPrefix == <<"/", "t", "m", "p", "/">>
\* 'input.mp4' and 'output.mp4' joined to temp_dir.
InputName == <<"/", "i", "n", "p", "u", "t", ".", "m", "p", "4">>
OutputName == <<"/", "o", "u", "t", "p", "u", "t", ".", "m", "p", "4">>
DashI == <<"-", "i">>
\* The blob name main writes under the destination container.
OutputBlobName == <<"o", "u", "t", "p", "u", "t", ".", "m", "p", "4">>

\* The ffmpeg locations main probes, in order (lines 97-103). The first is
\* os.getcwd()/bin/ffmpeg, the third is what shutil.which('ffmpeg') returns.
CwdBin == <<"/", "a", "p", "p", "/", "b", "i", "n", "/", "f", "f", "m", "p", "e", "g">>
SiteBin == <<"/", "h", "o", "m", "e", "/", "s", "i", "t", "e", "/", "w", "w", "w", "r",
      "o", "o", "t", "/", "b", "i", "n", "/", "f", "f", "m", "p", "e", "g">>
WhichBin == <<"/", "o", "p", "t", "/", "f", "f", "m", "p", "e", "g">>
UsrBin == <<"/", "u", "s", "r", "/", "b", "i", "n", "/", "f", "f", "m", "p", "e", "g">>
UsrLocalBin == <<"/", "u", "s", "r", "/", "l", "o", "c", "a", "l", "/", "b", "i", "n", "/",
      "f", "f", "m", "p", "e", "g">>

(***************************************************************************)
(* Requests.  A field is <<>> when absent (Python's None) and <<s>> when   *)
(* it holds the string s.  body is what req.get_json() gives: "invalid"    *)
(* when it raises ValueError, otherwise the kind of JSON value; json holds *)
(* the three keys of a JSON object, extra says the object has other keys;  *)
(* params is req.params.                                                   *)
(***************************************************************************)
Absent == <<>>
Str(s) == <<s>>
NoFields == [inputBlobUrl |-> Absent, outputContainerName |-> Absent, ffmpegCommand |-> Absent]
Fields(i, o, c) == [inputBlobUrl |-> i, outputContainerName |-> o, ffmpegCommand |-> c]
FieldNames == {"inputBlobUrl", "outputContainerName", "ffmpegCommand"}

\* JSON values that are not objects, by Python truthiness.
TruthyKinds == {"array", "string", "number", "true"}
FalsyKinds == {"invalid", "null", "empty_array", "empty_string", "zero", "false"}

JsonRequest(i, o, c) == [body |-> "object", json |-> Fields(i, o, c), extra |-> FALSE, params |-> NoFields]
\* The host has not called main for this invocation.
NoRequest == [body |-> "idle", json |-> NoFields, extra |-> FALSE, params |-> NoFields]

\* bool(req_body) of line 30
BodyTruthy(r) ==
    IF r.body = "object"
    THEN r.extra \/ \E f \in FieldNames : r.json[f] # Absent
    ELSE r.body \in TruthyKinds

\* req_body.get(name) raises AttributeError when req_body is not a dict.
GetRaises(r) == BodyTruthy(r) /\ r.body # "object"

\* A lookup that falls back to the query string field by field.
GetFieldEitherSource(r, name) ==
    IF ~(r.json[name] = Absent \/ r.json[name][1] = <<>>) THEN r.json[name] ELSE r.params[name]

\* req_body.get(name) if req_body else req.params.get(name)
GetField(r, name) == IF BodyTruthy(r) THEN r.json[name] ELSE r.params[name]

\* not value, for None and ''
Falsy(v) == v = Absent \/ v[1] = <<>>

\* A check of the first field alone.
MissingFieldInputOnly(r) == Falsy(GetField(r, "inputBlobUrl"))

\* line 34
MissingField(r) ==
    \/ Falsy(GetField(r, "inputBlobUrl"))
    \/ Falsy(GetField(r, "outputContainerName"))
    \/ Falsy(GetField(r, "ffmpegCommand"))

input_blob_url(r) == GetField(r, "inputBlobUrl")[1]
output_container_name(r) == GetField(r, "outputContainerName")[1]
ffmpeg_command(r) == GetField(r, "ffmpegCommand")[1]

(***************************************************************************)
(* Blob storage: a set of [key, data] records, one per key.  The host name *)
(* of a blob URL is a DNS name, which the service resolves without regard  *)
(* to case.  A blob's data is the sequence of the blocks of bytes it is    *)
(* made of; upload_blob sends a file either in one request (the service's  *)
(* Put Blob) or block by block (Put Block), followed by the commit of the  *)
(* block list (Put Block List).                                            *)
(***************************************************************************)
\* f"https://{account}.blob.core.windows.net/{container}/{blob}" as the service sees it
BlobKey(account, container, blob) ==
    [account |-> Lower(account), container |-> container, blob |-> blob]

NoData == [bytes |-> "", filters |-> <<>>]

\* The k-th block of the bytes data, and the bytes cut into blocks.
Block(data, k) == [of |-> data, part |-> k]
Chunks(data) == [k \in 1..NumBlocks |-> Block(data, k)]

\* Bytes that are no file's: blocks of different files one after another.
Garbled == [bytes |-> "garbled", filters |-> <<>>]

\* The bytes a sequence of blocks reads as.
Concat(blocks) == IF blocks = Chunks(blocks[1].of) THEN blocks[1].of ELSE Garbled

\* The blob that holds the bytes data under key.
Blob(key, data) == [key |-> key, data |-> Chunks(data)]

HasBlob(st, key) == \E b \in st : b.key = key
BlobData(st, key) == Concat((CHOOSE b \in st : b.key = key).data)

\* upload_blob(data, overwrite=...) of a file sent in one request: the blob
\* is replaced as a whole; ok is FALSE where it raises ResourceExistsError.
UploadBlob(st, key, data, overwrite) ==
    IF HasBlob(st, key) /\ ~overwrite
    THEN [ok |-> FALSE, store |-> st]
    ELSE [ok |-> TRUE, store |-> {b \in st : b.key # key} \cup {Blob(key, data)}]

\* The blocks sent and not committed are kept per blob under a block id;
\* the client names a block by its offset in the file, so the k-th blocks
\* of two uploads to one blob have the same id, and the later replaces the
\* earlier.
StageBlock(blocks, key, k, block) ==
    {u \in blocks : ~(u.key = key /\ u.id = k)} \cup {[key |-> key, id |-> k, block |-> block]}

\* The block the service finds under an id when a block list is committed:
\* the uncommitted one, else the one of the committed block list (a blob
\* written in one request has none), else none (<<>>).
LatestBlock(st, blocks, lists, key, k) ==
    IF \E u \in blocks : u.key = key /\ u.id = k
    THEN <<(CHOOSE u \in blocks : u.key = key /\ u.id = k).block>>
    ELSE IF key \in lists /\ HasBlob(st, key)
    THEN <<(CHOOSE b \in st : b.key = key).data[k]>>
    ELSE <<>>

\* The commit of the block list 1..NumBlocks that ends upload_blob of a
\* file sent in blocks: ok is FALSE where the service refuses it (the blob
\* exists and overwrite is off, or a block of the list is not there).
CommitBlockList(st, blocks, lists, key, overwrite) ==
    LET found == [k \in 1..NumBlocks |-> LatestBlock(st, blocks, lists, key, k)]
    IN  IF HasBlob(st, key) /\ ~overwrite
        THEN [ok |-> FALSE, exists |-> TRUE, store |-> st]
        ELSE IF \E k \in 1..NumBlocks : found[k] = <<>>
        THEN [ok |-> FALSE, exists |-> FALSE, store |-> st]
        ELSE [ok |-> TRUE, exists |-> FALSE,
              store |-> {b \in st : b.key # key} \cup
                        {[key |-> key, data |-> [k \in 1..NumBlocks |-> found[k][1]]]}]

\* Once a blob is written, the blocks sent for it and not committed are gone.
Discard(blocks, key) == {u \in blocks : u.key # key}

\* What ffmpeg writes to the output file: the input bytes under the
\* arguments between the input and the output path.
Transcode(data, args) ==
    [bytes |-> data.bytes, filters |-> Append(data.filters, SubSeq(args, 4, Len(args) - 1))]

(***************************************************************************)
(* Inputs of the specifications.                                           *)
(***************************************************************************)
SrcA ==
    <<"h", "t", "t", "p", "s", ":", "/", "/", "a", "c", ".", "n", "e", "t", "/", "i", "n", "/", "a">>
SrcMissing ==
    <<"h", "t", "t", "p", "s", ":", "/", "/", "a", "c", ".", "n", "e", "t", "/", "i", "n", "/", "x">>
DstOut ==
    <<"h", "t", "t", "p", "s", ":", "/", "/", "a", "c", ".", "n", "e", "t", "/", "o", "u", "t">>
DstDeep ==
    <<"h", "t", "t", "p", "s", ":", "/", "/", "a", "c", ".", "n", "e", "t", "/", "o", "u", "t", "/", "s", "/", "b">>
CmdScale ==
    <<"-", "v", "f", " ", "\"", "s", "c", "a", "l", "e", "=", "1", "2", "8", "0", ":", "7", "2", "0", "\"">>
CmdCopy == <<"-", "c", " ", "c", "o", "p", "y">>
CmdNoAudio == <<"-", "a", "n">>
CmdUnbalanced == <<"-", "v", "f", " ", "\"", "s">>
CmdTab == <<"-", "c", "\t", "c", "o", "p", "y">>

DataA == [bytes |-> "A", filters |-> <<>>]

\* The blob a source URL names, stored with the bytes DataA.
SourceBlob(url) ==
    LET loc == ParseInputUrl(url)
    IN  Blob(BlobKey(loc.account, loc.container, loc.blob), DataA)

(***************************************************************************)
(* State.                                                                  *)
(***************************************************************************)
Invocations == 1..NumInvocations

VARIABLES
    pc,           \* per invocation: the stage of main it is about to run
    req,          \* per invocation: the HTTP request
    temp_dir,     \* per invocation: temp_dir, <<>> before mkdtemp
    locator,      \* per invocation: input account, container and blob name
    credential,   \* per invocation: whether ManagedIdentityCredential() was built
    ffmpeg_path,  \* per invocation: the resolved binary, <<>> while None
    process,      \* per invocation: the subprocess.run call and its result
    destination,  \* per invocation: output account and container
    response,     \* per invocation: the HttpResponse returned, or the exception raised
    trace,        \* per invocation: the stages run so far, in order
    fs,           \* the directories under /tmp, with their two files
    download,     \* per invocation: how download_blob().readall() ended, "" before
    store,        \* blob storage
    uncommitted,  \* blob storage: the blocks sent and not committed
    listed,       \* blob storage: the keys of the blobs written as a block list
    sent,         \* per invocation: the blocks upload_blob has sent
    written,      \* per invocation: the blobs it has uploaded
    completed,    \* the invocations whose upload_blob has returned, in that order
    foreign       \* whether an invocation touched a directory made by another one

vars == <<pc, req, temp_dir, locator, credential, download, ffmpeg_path, process, destination,
          response, trace, fs, store, uncommitted, listed, sent, written, completed, foreign>>

DigitNames == <<"1", "2", "3", "4", "5", "6", "7", "8", "9">>
\* The k-th name under /tmp.
TempName(k) == TmpPrefix \o <<"t", "m", "p", DigitNames[k]>>
\* The names mkdtemp(dir='/tmp') can return.
TempNames == {TempName(k) : k \in 1..NumTempNames}

NoFile == [present |-> FALSE, data |-> NoData]
NoDir == [exists |-> FALSE, owner |-> 0, input |-> NoFile, output |-> NoFile]
NoLocator == [account |-> <<>>, container |-> <<>>, blob |-> <<>>]
NoDestination == [account |-> <<>>, container |-> <<>>]
NoProcess ==
    [called |-> FALSE, started |-> FALSE, exited |-> FALSE, args |-> <<>>,
     returncode |-> 0, stderr |-> "", decoded |-> TRUE]

\* func.HttpResponse(text + detail, status_code=status)
HttpResponse(status, text, detail) ==
    [returned |-> TRUE, status |-> status, text |-> text, detail |-> detail]
\* main has returned nothing (yet).
NoResponse == [returned |-> FALSE, status |-> 0, text |-> "", detail |-> ""]
\* str(e) of the exception a handler of main caught.
ErrorText == "str(e)"
\* An exception leaves main.
Raised(exc) == [returned |-> FALSE, status |-> 0, text |-> "raise", detail |-> exc]

\* os.path.join(temp_dir, 'input.mp4'), os.path.join(temp_dir, 'output.mp4')
temp_input_path(dir) == dir \o InputName
temp_output_path(dir) == dir \o OutputName

\* An invocation ends: it returns resp or raises.
Finish(i, resp) ==
    /\ pc' = [pc EXCEPT ![i] = "done"]
    /\ response' = [response EXCEPT ![i] = resp]

Goto(i, stage) ==
    /\ pc' = [pc EXCEPT ![i] = stage]
    /\ UNCHANGED response

Stage(i, name) == trace' = [trace EXCEPT ![i] = Append(@, name)]

\* The directory an invocation works in is one another invocation made.
Touch(i) == foreign' = (foreign \/ fs[temp_dir[i]].owner # i)

(***************************************************************************)
(* Lines 23-38: read the three parameters and check them.                  *)
(***************************************************************************)
Validate(i) ==
    /\ pc[i] = "validate"
    /\ Stage(i, "validate")
    /\ IF GetRaises(req[i])
       THEN Finish(i, Raised("AttributeError"))
       ELSE IF MissingField(req[i])
       THEN Finish(i, HttpResponse(400, "Please pass inputBlobUrl, outputContainerName, and ffmpegCommand in the request body", ""))
       ELSE Goto(i, "workspace")
    /\ UNCHANGED <<req, download, temp_dir, locator, credential, ffmpeg_path, process, destination,
                   fs, store, uncommitted, listed, sent, foreign, written, completed>>

(***************************************************************************)
(* Lines 40-49: tempfile.mkdtemp(dir='/tmp'), then the logging calls with  *)
(* os.getcwd() of line 48.                                                 *)
(***************************************************************************)
\* The names mkdtemp has returned so far.
Taken(dirs) == {dirs[i] : i \in Invocations} \ {<<>>}

\* The name mkdtemp returns is random, and nothing in main depends on which
\* one it is, so names are numbered in the order mkdtemp first returns
\* them: a name not returned before is the next in this order.
NewNames(taken) ==
    {TempName(k) : k \in {n \in 1..NumTempNames :
                              /\ TempName(n) \notin taken
                              /\ \A m \in 1..(n - 1) : TempName(m) \in taken}}

\* A mkdtemp that returns a name whether or not it is taken.
mkdtempAnyName(files, taken) == TempNames

\* mkdtemp creates a directory that did not exist: under a name it has not
\* returned before, or under the name of a directory since removed.
mkdtemp(files, taken) ==
    {d \in taken \cup NewNames(taken) : ~files[d].exists}

\* The directory made under a name: an existing one would stay as it is.
MakeDir(old, i) ==
    IF old.exists THEN old
    ELSE [exists |-> TRUE, owner |-> i, input |-> NoFile, output |-> NoFile]

\* os.getcwd() raises FileNotFoundError when the working directory of the
\* process has been removed (cwd: whether it still exists).
getcwdRaises(cwd) == ~cwd

CreateWorkspace(i) ==
    /\ pc[i] = "workspace"
    /\ Stage(i, "workspace")
    /\ \/ \E d \in mkdtemp(fs, Taken(temp_dir)), cwd \in BOOLEAN :
             /\ fs' = [fs EXCEPT ![d] = MakeDir(@, i)]
             /\ temp_dir' = [temp_dir EXCEPT ![i] = d]
             /\ IF getcwdRaises(cwd)
                THEN \* line 48, outside every try block: the directory stays
                     Finish(i, Raised("FileNotFoundError"))
                ELSE Goto(i, "parse_source")
       \/ \* mkdtemp raises (no name left, no space): nothing catches it
          /\ Finish(i, Raised("OSError"))
          /\ UNCHANGED <<fs, temp_dir>>
    /\ UNCHANGED <<req, download, locator, credential, ffmpeg_path, process, destination, store, uncommitted, listed, sent, foreign, written, completed>>

(***************************************************************************)
(* Lines 52-67: the input URL.                                             *)
(***************************************************************************)
ParseSource(i) ==
    /\ pc[i] = "parse_source"
    /\ Stage(i, "parse_source")
    /\ IF UrlParseRaises(input_blob_url(req[i]))
       THEN \* urlparse raises ValueError: line 90
            /\ Finish(i, HttpResponse(500, "Unexpected error accessing blob storage: ", ErrorText))
            /\ UNCHANGED locator
       ELSE IF InvalidBlobUrl(input_blob_url(req[i]))
       THEN /\ Finish(i, HttpResponse(400, "Invalid blob URL format. URL must include container name and blob path.", ""))
            /\ UNCHANGED locator
       ELSE /\ locator' = [locator EXCEPT ![i] = ParseInputUrl(input_blob_url(req[i]))]
            /\ Goto(i, "credential")
    /\ UNCHANGED <<req, download, temp_dir, credential, ffmpeg_path, process, destination, fs, store, uncommitted, listed, sent, foreign, written, completed>>

(***************************************************************************)
(* Line 71: ManagedIdentityCredential(); a failure reaches line 90.        *)
(***************************************************************************)
AcquireCredential(i) ==
    /\ pc[i] = "credential"
    /\ Stage(i, "credential")
    /\ \E ok \in BOOLEAN :
          IF ok
          THEN /\ credential' = [credential EXCEPT ![i] = TRUE]
               /\ Goto(i, "download")
          ELSE /\ Finish(i, HttpResponse(500, "Unexpected error accessing blob storage: ", ErrorText))
               /\ UNCHANGED credential
    /\ UNCHANGED <<req, download, temp_dir, locator, ffmpeg_path, process, destination, fs, store, uncommitted, listed, sent, foreign, written, completed>>

(***************************************************************************)
(* Lines 74-92: the blob client, then the download into input.mp4.         *)
(***************************************************************************)
\* What can go wrong in lines 77-82: BlobClient.from_blob_url raises,
\* open(temp_input_path, 'wb') raises, download_blob().readall() raises
\* something other than ResourceNotFoundError.
DownloadFaults == {"none", "client", "open", "transfer"}

\* How lines 77-89 end: the client cannot be built, the file cannot be
\* opened or the transfer fails (whether or not the blob is there), the
\* blob is not there (ResourceNotFoundError), or the bytes are written.
DownloadOutcome(fault, found) ==
    IF fault = "client" THEN "client_error"
    ELSE IF fault \in {"open", "transfer"} THEN "error"
    ELSE IF ~found THEN "not_found"
    ELSE "ok"

\* A handler that reports a missing blob like any other download error.
DownloadResponseNoNotFound(outcome) ==
    CASE outcome = "client_error" ->
           HttpResponse(500, "Unexpected error accessing blob storage: ", ErrorText)
      [] OTHER ->
           HttpResponse(500, "Error downloading input file: ", ErrorText)

\* The handlers of lines 84-92.
DownloadResponse(outcome) ==
    CASE outcome = "client_error" ->
           HttpResponse(500, "Unexpected error accessing blob storage: ", ErrorText)
      [] outcome = "not_found" ->
           HttpResponse(404, "Input blob not found at ", "container/blob")
      [] OTHER ->
           HttpResponse(500, "Error downloading input file: ", ErrorText)

\* Lines 74-80: the blob client, then open(temp_input_path, 'wb'), which
\* creates the file, empty, or raises.
Download(i) ==
    /\ pc[i] = "download"
    /\ Stage(i, "download")
    /\ \E fault \in DownloadFaults \ {"transfer"} :
          LET outcome == DownloadOutcome(fault, TRUE)
          IN  IF outcome # "ok"
              THEN /\ Finish(i, DownloadResponse(outcome))
                   /\ download' = [download EXCEPT ![i] = outcome]
                   /\ UNCHANGED <<fs, foreign>>
              ELSE /\ fs' = [fs EXCEPT ![temp_dir[i]].input = [present |-> TRUE, data |-> NoData]]
                   /\ Touch(i)
                   /\ Goto(i, "readall")
                   /\ UNCHANGED download
    /\ UNCHANGED <<req, temp_dir, locator, credential, ffmpeg_path, process, destination, store, uncommitted, listed, sent, written, completed>>

\* Lines 81-89: download_blob().readall() returns the bytes, which are
\* written to the open file, or raises.
ReadAll(i) ==
    /\ pc[i] = "readall"
    /\ \E fault \in DownloadFaults \ {"client", "open"} :
          LET loc  == locator[i]
              key  == BlobKey(loc.account, loc.container, loc.blob)
              outcome == DownloadOutcome(fault, HasBlob(store, key))
          IN  /\ download' = [download EXCEPT ![i] = outcome]
              /\ IF outcome # "ok"
                 THEN /\ Finish(i, DownloadResponse(outcome))
                      /\ UNCHANGED <<fs, foreign>>
                 ELSE /\ fs' = [fs EXCEPT ![temp_dir[i]].input =
                                  [present |-> TRUE, data |-> BlobData(store, key)]]
                      /\ Touch(i)
                      /\ Goto(i, "resolve_binary")
    /\ UNCHANGED <<req, temp_dir, locator, credential, ffmpeg_path, process, destination,
                   store, uncommitted, listed, sent, written, completed, trace>>

(***************************************************************************)
(* Lines 96-113: the first ffmpeg location that exists.                    *)
(***************************************************************************)
\* ffmpeg_locations, with shutil.which's answer (<<>> while None) third.
ffmpeg_locations(which) == <<CwdBin, SiteBin, which, UsrBin, UsrLocalBin>>

\* for location in ffmpeg_locations: if location and os.path.exists(location)
RECURSIVE FirstExisting(_, _)
FirstExisting(locations, existing) ==
    IF locations = <<>> THEN <<>>
    ELSE IF Head(locations) # <<>> /\ Head(locations) \in existing THEN Head(locations)
    ELSE FirstExisting(Tail(locations), existing)

\* What the file system holds when main looks: none of the locations, one
\* found on PATH beside a system one, or no working directory any more.
BinaryEnvs ==
    {[cwd |-> TRUE, which |-> <<>>, existing |-> {}],
     [cwd |-> TRUE, which |-> WhichBin, existing |-> {WhichBin, UsrLocalBin}],
     [cwd |-> FALSE, which |-> WhichBin, existing |-> {WhichBin, UsrLocalBin}]}

ResolveBinary(i) ==
    /\ pc[i] = "resolve_binary"
    /\ Stage(i, "resolve_binary")
    /\ \E env \in BinaryEnvs :
          LET path == FirstExisting(ffmpeg_locations(env.which), env.existing)
          IN  IF getcwdRaises(env.cwd)
              THEN \* os.getcwd() of line 98 raises: line 144
                   /\ Finish(i, HttpResponse(500, "Error executing FFmpeg: ", ErrorText))
                   /\ UNCHANGED ffmpeg_path
              ELSE IF path = <<>>
              THEN /\ Finish(i, HttpResponse(500, "FFmpeg binary not found", ""))
                   /\ UNCHANGED ffmpeg_path
              ELSE /\ ffmpeg_path' = [ffmpeg_path EXCEPT ![i] = path]
                   /\ Goto(i, "run")
    /\ UNCHANGED <<req, download, temp_dir, locator, credential, process, destination, fs, store, uncommitted, listed, sent, foreign, written, completed>>

(***************************************************************************)
(* Lines 118-146: the argument list, then subprocess.run.                  *)
(***************************************************************************)
\* An argument list that cuts the command at blanks, quotes left in place.
cmd_parts_blank_split(path, input, command, output) ==
    <<path, DashI, input>>
        \o SelectSeq(Split(command, " "), LAMBDA t : t # <<>>)
        \o <<output>>

\* cmd_parts of lines 119-128
cmd_parts(path, input, command, output) ==
    <<path, DashI, input>>
        \o (IF command # <<>> THEN shlex_split(command).tokens ELSE <<>>)
        \o <<output>>

\* How the child can end: an exit code (negative when a signal killed
\* it), its diagnostics on stderr, which can be empty, and
\* whether subprocess.run(text=True) can decode them; where it cannot it
\* raises UnicodeDecodeError.
RunResults ==
    {[returncode |-> 0, stderr |-> "ffmpeg version", decoded |-> TRUE],
     [returncode |-> 1, stderr |-> "Invalid argument", decoded |-> TRUE],
     [returncode |-> 1, stderr |-> "", decoded |-> TRUE],
     [returncode |-> -9, stderr |-> "", decoded |-> TRUE],
     [returncode |-> 0, stderr |-> "0xe9", decoded |-> FALSE],
     [returncode |-> 1, stderr |-> "0xe9", decoded |-> FALSE]}

\* if process.returncode != 0
ProcessFailed(returncode) == returncode # 0

\* line 141
FFmpegError(stderr) == HttpResponse(500, "FFmpeg error: ", stderr)

\* Lines 118-133: the argument list, then subprocess.run starts the child
\* and waits.
Run(i) ==
    /\ pc[i] = "run"
    /\ Stage(i, "run")
    /\ LET dir     == temp_dir[i]
           command == ffmpeg_command(req[i])
           args    == cmd_parts(ffmpeg_path[i], temp_input_path(dir), command, temp_output_path(dir))
       IN  IF command # <<>> /\ ~shlex_split(command).ok
           THEN \* shlex.split raises ValueError: line 144
                /\ Finish(i, HttpResponse(500, "Error executing FFmpeg: ", ErrorText))
                /\ UNCHANGED process
           ELSE \E started \in BOOLEAN :
                  /\ process' = [process EXCEPT ![i] =
                         [NoProcess EXCEPT !.called = TRUE, !.started = started, !.args = args]]
                  /\ IF ~started
                     THEN \* subprocess.run raises OSError: line 144
                          Finish(i, HttpResponse(500, "Error executing FFmpeg: ", ErrorText))
                     ELSE Goto(i, "wait")
    /\ UNCHANGED <<req, download, temp_dir, locator, credential, ffmpeg_path, destination,
                   fs, store, uncommitted, listed, sent, written, completed, foreign>>

\* The child reads input.mp4 and writes output.mp4 while main waits.
ChildWrites(i) ==
    /\ pc[i] = "wait"
    /\ ~fs[temp_dir[i]].output.present
    /\ fs' = [fs EXCEPT ![temp_dir[i]].output =
                 [present |-> TRUE,
                  data |-> Transcode(fs[temp_dir[i]].input.data, process[i].args)]]
    /\ Touch(i)
    /\ UNCHANGED <<pc, response, req, download, temp_dir, locator, credential, ffmpeg_path,
                   process, destination, store, uncommitted, listed, sent, written, completed, trace>>

\* Lines 133-146: the child ends, whether or not it has written the output
\* file, and subprocess.run returns or raises.
Wait(i) ==
    /\ pc[i] = "wait"
    /\ \E result \in RunResults :
          /\ process' = [process EXCEPT ![i] =
                 [@ EXCEPT !.exited = TRUE, !.returncode = result.returncode,
                           !.stderr = result.stderr, !.decoded = result.decoded]]
          /\ IF ~result.decoded
             THEN \* UnicodeDecodeError: line 144
                  Finish(i, HttpResponse(500, "Error executing FFmpeg: ", ErrorText))
             ELSE IF ProcessFailed(result.returncode)
             THEN Finish(i, FFmpegError(result.stderr))
             ELSE Goto(i, "parse_destination")
    /\ UNCHANGED <<req, download, temp_dir, locator, credential, ffmpeg_path, destination,
                   fs, store, uncommitted, listed, sent, written, completed, foreign, trace>>

(***************************************************************************)
(* Lines 150-155: the output URL.                                          *)
(***************************************************************************)
\* line 167
UploadFailed(detail) == HttpResponse(500, "Video processing completed but upload failed: ", detail)

ParseDestination(i) ==
    /\ pc[i] = "parse_destination"
    /\ Stage(i, "parse_destination")
    /\ IF UrlParseRaises(output_container_name(req[i]))
       THEN \* urlparse raises ValueError: line 165, then the finally clause
            /\ response' = [response EXCEPT ![i] = UploadFailed(ErrorText)]
            /\ pc' = [pc EXCEPT ![i] = "cleanup"]
            /\ UNCHANGED destination
       ELSE /\ destination' = [destination EXCEPT ![i] = ParseOutputUrl(output_container_name(req[i]))]
            /\ Goto(i, "upload")
    /\ UNCHANGED <<req, download, temp_dir, locator, credential, ffmpeg_path, process, fs, store, uncommitted, listed, sent, foreign, written, completed>>

(***************************************************************************)
(* Lines 157-167: the output blob client and upload_blob.  The response of *)
(* line 167 is returned once the finally clause has run.                   *)
(***************************************************************************)
\* An upload that refuses to replace a blob.
OverwriteOff == FALSE

\* overwrite=True of line 162
Overwrite == TRUE

\* str(e) of the ResourceExistsError upload_blob raises without overwrite
BlobExistsText == "The specified blob already exists."

\* What can go wrong in lines 159-161: BlobClient.from_blob_url raises,
\* open(temp_output_path, 'rb') raises.
UploadFaults == {"none", "client", "read"}

\* BlobClient.from_blob_url raises ValueError on a URL without a container
\* name: "https://{account}.blob.core.windows.net//output.mp4".
ClientRefuses(dest) == dest.container = <<>>

\* No storage account answers under "https://.blob.core.windows.net".
Unreachable(dest) == dest.account = <<>>

\* The blob upload_blob of line 162 writes.
OutputBlobKey(dest) == BlobKey(dest.account, dest.container, OutputBlobName)

\* Lines 157-161: the output URL, the blob client, open(temp_output_path).
Upload(i) ==
    /\ pc[i] = "upload"
    /\ Stage(i, "upload")
    /\ \E fault \in UploadFaults :
          IF fault = "client" \/ ClientRefuses(destination[i])
          THEN /\ response' = [response EXCEPT ![i] = UploadFailed(ErrorText)]
               /\ pc' = [pc EXCEPT ![i] = "cleanup"]
               /\ UNCHANGED foreign
          ELSE IF fault = "read" \/ ~fs[temp_dir[i]].output.present
          THEN /\ response' = [response EXCEPT ![i] = UploadFailed(ErrorText)]
               /\ pc' = [pc EXCEPT ![i] = "cleanup"]
               /\ Touch(i)
          ELSE /\ Goto(i, "upload_blob")
               /\ Touch(i)
    /\ UNCHANGED <<req, download, temp_dir, locator, credential, ffmpeg_path, process, destination,
                   fs, store, uncommitted, listed, sent, written, completed>>

\* upload_blob raises: line 165, then the finally clause.
UploadRaises(i, detail) ==
    /\ response' = [response EXCEPT ![i] = UploadFailed(detail)]
    /\ pc' = [pc EXCEPT ![i] = "cleanup"]
    /\ UNCHANGED <<store, uncommitted, listed, written, completed>>

\* upload_blob has written the blob: the with block of line 161 ends.
Uploaded(i, key) ==
    /\ written' = [written EXCEPT ![i] = @ \cup {Blob(key, fs[temp_dir[i]].output.data)}]
    /\ completed' = Append(completed, i)
    /\ uncommitted' = Discard(uncommitted, key)
    /\ Goto(i, "cleanup")

\* Line 162, a file within the limit of one request: upload_blob reads it
\* and sends it whole.
PutBlob(i) ==
    /\ pc[i] = "upload_blob"
    /\ sent[i] = 0
    /\ \E ok \in BOOLEAN :
          LET key == OutputBlobKey(destination[i])
              put == UploadBlob(store, key, fs[temp_dir[i]].output.data, Overwrite)
          IN  IF ~ok \/ Unreachable(destination[i])
              THEN UploadRaises(i, ErrorText)
              ELSE IF ~put.ok
              THEN UploadRaises(i, BlobExistsText)
              ELSE /\ store' = put.store
                   /\ listed' = listed \ {key}
                   /\ Uploaded(i, key)
    /\ Touch(i)
    /\ UNCHANGED <<req, download, temp_dir, locator, credential, ffmpeg_path, process, destination,
                   fs, sent, trace>>

\* Line 162, a larger file: upload_blob reads the next block of the file
\* and sends it.
PutBlock(i) ==
    /\ pc[i] = "upload_blob"
    /\ sent[i] < NumBlocks
    /\ \E ok \in BOOLEAN :
          LET key == OutputBlobKey(destination[i])
              k   == sent[i] + 1
          IN  IF ~ok \/ Unreachable(destination[i])
              THEN /\ UploadRaises(i, ErrorText)
                   /\ UNCHANGED sent
              ELSE /\ uncommitted' = StageBlock(uncommitted, key, k, Block(fs[temp_dir[i]].output.data, k))
                   /\ sent' = [sent EXCEPT ![i] = k]
                   /\ UNCHANGED <<pc, response, store, listed, written, completed>>
    /\ Touch(i)
    /\ UNCHANGED <<req, download, temp_dir, locator, credential, ffmpeg_path, process, destination,
                   fs, trace>>

\* Line 162, a larger file: every block is sent, upload_blob commits the
\* list of their ids.
Commit(i) ==
    /\ pc[i] = "upload_blob"
    /\ sent[i] = NumBlocks
    /\ \E ok \in BOOLEAN :
          LET key == OutputBlobKey(destination[i])
              put == CommitBlockList(store, uncommitted, listed, key, Overwrite)
          IN  IF ~ok
              THEN UploadRaises(i, ErrorText)
              ELSE IF ~put.ok
              THEN UploadRaises(i, IF put.exists THEN BlobExistsText ELSE ErrorText)
              ELSE /\ store' = put.store
                   /\ listed' = listed \cup {key}
                   /\ Uploaded(i, key)
    /\ UNCHANGED <<req, download, temp_dir, locator, credential, ffmpeg_path, process, destination,
                   fs, sent, trace, foreign>>

(***************************************************************************)
(* Lines 168-176: shutil.rmtree(temp_dir, ignore_errors=True), which       *)
(* unlinks the files and then removes the directory, then the pending      *)
(* response or the 200 of line 176.                                        *)
(***************************************************************************)
\* The files shutil.rmtree(temp_dir, ignore_errors=True) can have unlinked
\* when it comes to the directory itself: each of them or not.
RmtreeOutcomes == SUBSET {"input", "output"}

\* rmtree's os.unlink calls on the entries of dir.
rmtree(files, dir, gone) ==
    [files EXCEPT ![dir].input = IF "input" \in gone THEN NoFile ELSE @,
                  ![dir].output = IF "output" \in gone THEN NoFile ELSE @]

\* rmtree's os.rmdir(dir): it removes an empty directory, when nothing
\* else keeps it from doing so (ok), and the name is free from then on.
rmdir(files, dir, ok) ==
    IF ok /\ ~files[dir].input.present /\ ~files[dir].output.present
    THEN [files EXCEPT ![dir] = NoDir]
    ELSE files

\* A finally clause that reports a directory it could not remove.
CleanupOutcomeReportsFailure(pending, removed) ==
    IF ~removed THEN HttpResponse(500, "Failed to clean up temporary files: ", ErrorText)
    ELSE IF pending.returned THEN pending
    ELSE HttpResponse(200, "Video processed successfully", "")

\* What main returns after the finally clause: the response of line 167
\* when the except clause ran, else that of line 176.
CleanupOutcome(pending, removed) ==
    IF pending.returned THEN pending
    ELSE HttpResponse(200, "Video processed successfully", "")

\* Line 171: shutil.rmtree(temp_dir, ignore_errors=True) starts and
\* unlinks the files of the directory.
Cleanup(i) ==
    /\ pc[i] = "cleanup"
    /\ Stage(i, "cleanup")
    /\ \E gone \in RmtreeOutcomes : fs' = rmtree(fs, temp_dir[i], gone)
    /\ pc' = [pc EXCEPT ![i] = "rmdir"]
    /\ Touch(i)
    /\ UNCHANGED <<response, req, download, temp_dir, locator, credential, ffmpeg_path,
                   process, destination, store, uncommitted, listed, sent, written, completed>>

\* Line 171, the end of rmtree: os.rmdir on the directory, whose error is
\* ignored.  rmtree has not returned yet.
Rmdir(i) ==
    /\ pc[i] = "rmdir"
    /\ \E ok \in BOOLEAN : fs' = rmdir(fs, temp_dir[i], ok)
    /\ pc' = [pc EXCEPT ![i] = "return"]
    /\ Touch(i)
    /\ UNCHANGED <<response, req, download, temp_dir, locator, credential, ffmpeg_path,
                   process, destination, store, uncommitted, listed, sent, written, completed, trace>>

\* Lines 171-176: rmtree returns, the finally clause ends and main returns.
Return(i) ==
    /\ pc[i] = "return"
    /\ Finish(i, CleanupOutcome(response[i],
                                ~(fs[temp_dir[i]].exists /\ fs[temp_dir[i]].owner = i)))
    /\ UNCHANGED <<req, download, temp_dir, locator, credential, ffmpeg_path, process,
                   destination, fs, store, uncommitted, listed, sent, written, completed, foreign, trace>>

(***************************************************************************)
(* Specifications.                                                         *)
(***************************************************************************)
\* One step of invocation i of main.
Step(i) ==
    \/ Validate(i)
    \/ CreateWorkspace(i)
    \/ ParseSource(i)
    \/ AcquireCredential(i)
    \/ Download(i)
    \/ ReadAll(i)
    \/ ResolveBinary(i)
    \/ Run(i)
    \/ ChildWrites(i)
    \/ Wait(i)
    \/ ParseDestination(i)
    \/ Upload(i)
    \/ PutBlob(i)
    \/ PutBlock(i)
    \/ Commit(i)
    \/ Cleanup(i)
    \/ Rmdir(i)
    \/ Return(i)

Next == \E i \in Invocations : Step(i)

\* The state when the host has received the requests rs and the storage
\* account holds blobs: nothing has run yet.
Start(rs, blobs) ==
    /\ req = rs
    /\ pc = [i \in Invocations |-> IF rs[i] = NoRequest THEN "off" ELSE "validate"]
    /\ temp_dir = [i \in Invocations |-> <<>>]
    /\ locator = [i \in Invocations |-> NoLocator]
    /\ credential = [i \in Invocations |-> FALSE]
    /\ download = [i \in Invocations |-> ""]
    /\ ffmpeg_path = [i \in Invocations |-> <<>>]
    /\ process = [i \in Invocations |-> NoProcess]
    /\ destination = [i \in Invocations |-> NoDestination]
    /\ response = [i \in Invocations |-> NoResponse]
    /\ trace = [i \in Invocations |-> <<>>]
    /\ fs = [d \in TempNames |-> NoDir]
    /\ store = blobs
    /\ uncommitted = {}
    /\ listed = {}
    /\ sent = [i \in Invocations |-> 0]
    /\ written = [i \in Invocations |-> {}]
    /\ completed = <<>>
    /\ foreign = FALSE

\* The requests of the concurrent invocations: a full run to DstOut, a
\* full run with another command to the same container, a missing source
\* blob, and a missing field.
Requests ==
    <<JsonRequest(Str(SrcA), Str(DstOut), Str(CmdNoAudio)),
      JsonRequest(Str(SrcA), Str(DstDeep), Str(CmdCopy)),
      JsonRequest(Str(SrcMissing), Str(DstOut), Str(CmdCopy)),
      JsonRequest(Str(SrcA), Str(DstOut), Absent)>>

\* Invocations are interchangeable, so the requests are handed out in the
\* order of the list: every other assignment is one of these renamed.  The
\* first request can be sent again and again, each of the others once.
Assignments ==
    {ix \in [Invocations -> 1..Len(Requests)] :
        \A i, j \in Invocations : i < j => (ix[i] < ix[j] \/ (ix[i] = 1 /\ ix[j] = 1))}

Init ==
    \E ix \in Assignments :
        Start([i \in Invocations |-> Requests[ix[i]]], {SourceBlob(SrcA)})

Spec == Init /\ [][Next]_vars

(***************************************************************************)
(* Specifications of one invocation (the first) over wider inputs.         *)
(***************************************************************************)
Single(r, blobs) == Start([i \in Invocations |-> IF i = 1 THEN r ELSE NoRequest], blobs)

\* Every shape of request: each kind of body, each field absent, empty or
\* given, in the body and in the query string.
FieldValues(v) == {Absent, Str(<<>>), Str(v)}
FieldSets ==
    {Fields(i, o, c) : i \in FieldValues(SrcA), o \in FieldValues(DstOut),
                       c \in FieldValues(CmdCopy)}
\* The query string carries a command of its own, so that the source of
\* the command shows in the arguments of the process.
QueryFieldSets ==
    {Fields(i, o, c) : i \in FieldValues(SrcA), o \in FieldValues(DstOut),
                       c \in FieldValues(CmdNoAudio)}
RequestShapes ==
    {[body |-> "object", json |-> j, extra |-> x, params |-> q] :
        j \in FieldSets, x \in BOOLEAN, q \in QueryFieldSets}
    \cup {[body |-> k, json |-> NoFields, extra |-> FALSE, params |-> q] :
            k \in TruthyKinds \cup FalsyKinds, q \in QueryFieldSets}

InitRequest == \E r \in RequestShapes : Single(r, {SourceBlob(SrcA)})
SpecRequest == InitRequest /\ [][Next]_vars

\* Source URLs: a prefix, a host and a path, each from a small alphabet.
UrlPrefixes ==
    {<<>>, <<"/", "/">>, <<"h", "t", "t", "p", "s", ":", "/", "/">>}
UrlHosts == SeqsUpTo({"a", "B", ".", "["}, MaxHostLen)
UrlPaths == SeqsUpTo({"/", "c"}, MaxPathLen)
SourceUrls == {p \o h \o q : p \in UrlPrefixes, h \in UrlHosts, q \in UrlPaths} \ {<<>>}

InitLocator ==
    \E u \in SourceUrls :
        Single(JsonRequest(Str(u), Str(DstOut), Str(CmdCopy)),
               IF InvalidBlobUrl(u) THEN {} ELSE {SourceBlob(u)})
SpecLocator == InitLocator /\ [][Next]_vars

\* Destination URLs, built like the source URLs.
DestinationUrls == {p \o h \o q : p \in UrlPrefixes, h \in UrlHosts, q \in UrlPaths} \ {<<>>}

InitDestination ==
    \E u \in DestinationUrls :
        Single(JsonRequest(Str(SrcA), Str(u), Str(CmdCopy)), {SourceBlob(SrcA)})
SpecDestination == InitDestination /\ [][Next]_vars

\* Commands: every text over a blank, a letter, the two quotes and the
\* backslash, the documented example, one with a quote left open and one
\* with a tab between its words.
Commands ==
    (SeqsUpTo({" ", "a", "\"", "'", "\\"}, MaxCmdLen) \ {<<>>}) \cup {CmdScale, CmdUnbalanced, CmdTab}

InitCommand ==
    \E c \in Commands :
        Single(JsonRequest(Str(SrcA), Str(DstOut), Str(c)), {SourceBlob(SrcA)})
SpecCommand == InitCommand /\ [][Next]_vars

(***************************************************************************)
(* Properties.                                                             *)
(***************************************************************************)
Done(i) == pc[i] = "done"
Ran(i, stage) == \E k \in 1..Len(trace[i]) : trace[i][k] = stage
LastStage(i) == IF trace[i] = <<>> THEN "" ELSE trace[i][Len(trace[i])]
\* The directory invocation i made is still there.
WorkspaceLeft(i) ==
    /\ temp_dir[i] # <<>>
    /\ fs[temp_dir[i]].exists
    /\ fs[temp_dir[i]].owner = i

\* C1: once main has ended, whatever the outcome, the directory the
\* request created no longer exists.
C1_WorkspaceRemoved ==
    \A i \in Invocations : (Done(i) /\ response[i].returned) => ~WorkspaceLeft(i)

\* A field is given neither in the JSON body nor in the query string.
Unsupplied(r, f) == Falsy(r.json[f]) /\ Falsy(r.params[f])

\* C2: a request with any of the three fields absent or empty ends with a
\* 400 response, whatever the body is.
C2_MissingFieldGives400 ==
    \A i \in Invocations :
        (Done(i) /\ \E f \in FieldNames : Unsupplied(req[i], f))
            => (response[i].returned /\ response[i].status = 400)

\* The storage account holds no blob under the source locator of
\* invocation i, which had opened input.mp4.
SourceMissing(i) ==
    /\ fs[temp_dir[i]].input.present
    /\ ~HasBlob(store, BlobKey(locator[i].account, locator[i].container, locator[i].blob))

\* C3: a download that raised ResourceNotFoundError ends the request with
\* 404, any other download error with 500; in a request that ended in the
\* download stage ffmpeg was not launched and nothing was uploaded.
C3_DownloadFailure ==
    \A i \in Invocations :
        /\ download[i] = "not_found" =>
              (Done(i) /\ response[i].returned /\ response[i].status = 404 /\ SourceMissing(i))
        /\ download[i] \in {"error", "client_error"} =>
              (Done(i) /\ response[i].returned /\ response[i].status = 500)
        /\ (Done(i) /\ LastStage(i) = "download") =>
              /\ download[i] \in {"not_found", "error", "client_error"}
              /\ ~process[i].called
              /\ ~Ran(i, "resolve_binary")
              /\ ~Ran(i, "run")
              /\ ~Ran(i, "upload")
              /\ written[i] = {}

C3_Witness ==
    \E i, j \in Invocations :
        /\ Done(i) /\ LastStage(i) = "download" /\ download[i] = "not_found"
        /\ response[i].status = 404
        /\ SourceMissing(i)
        /\ ~process[i].called
        /\ Done(j) /\ LastStage(j) = "download" /\ download[j] = "error"
        /\ response[j].status = 500

\* C4: when ffmpeg has exited with a non-zero code the request returns 500
\* with the captured stderr in the message and uploads nothing; the upload
\* stage is reached only after exit code 0.
C4_TranscoderFailure ==
    \A i \in Invocations :
        /\ (process[i].exited /\ process[i].returncode # 0) =>
              /\ Done(i)
              /\ response[i].returned
              /\ response[i].status = 500
              /\ response[i].detail = process[i].stderr
              /\ ~Ran(i, "upload")
              /\ written[i] = {}
        /\ (Ran(i, "upload") \/ written[i] # {}) =>
              (process[i].exited /\ process[i].returncode = 0)

NonEmpty(parts) == SelectSeq(parts, LAMBDA t : t # <<>>)
\* The non-empty segments of the path of a URL.
Segments(url) == NonEmpty(Split(urlparse(url).path, "/"))

\* C5: a source URL whose path has fewer than two non-empty segments is
\* answered by the locator stage with 400, and no credential is acquired,
\* no download attempted and no process launched.
C5_ShortPathGives400 ==
    \A i \in Invocations :
        (Ran(i, "parse_source") /\ Len(Segments(input_blob_url(req[i]))) < 2) =>
            /\ Done(i)
            /\ response[i].returned
            /\ response[i].status = 400
            /\ ~credential[i]
            /\ ~Ran(i, "credential")
            /\ ~Ran(i, "download")
            /\ ~process[i].called

\* The URL has a "//" after its scheme, and so a host part.
HasNetloc(url) ==
    LET rest == AfterScheme(url)
    IN  Len(rest) >= 2 /\ rest[1] = "/" /\ rest[2] = "/"

\* The URL with its host part replaced.
WithHost(url, host) ==
    LET rest == AfterScheme(url)
    IN  Slice(url, 1, Len(url) - Len(rest) + 2) \o host \o Slice(rest, NetlocEnd(rest), Len(rest))

\* A well-formed locator: a scheme, a host of non-empty labels of letters
\* and digits, and at least two path segments.
ValidLocator(url) ==
    /\ HasScheme(url)
    /\ HasNetloc(url)
    /\ LET labels == Split(urlparse(url).netloc, ".")
       IN  \A k \in 1..Len(labels) :
              /\ labels[k] # <<>>
              /\ \A m \in 1..Len(labels[k]) :
                    labels[k][m] \in LowerLetters \cup UpperLetters \cup Digits
    /\ Len(Segments(url)) >= 2

\* C6: the locator parsed from a well-formed URL is the one parsed from the
\* same URL with its host in lower case, and in upper case.
C6_HostCaseInsensitive ==
    \A i \in Invocations :
        (locator[i] # NoLocator /\ ValidLocator(input_blob_url(req[i]))) =>
            LET url  == input_blob_url(req[i])
                host == urlparse(url).netloc
            IN  /\ locator[i] = ParseInputUrl(WithHost(url, Lower(host)))
                /\ locator[i] = ParseInputUrl(WithHost(url, Upper(host)))

Succeeded(i) == Done(i) /\ response[i].returned /\ response[i].status = 200

\* C7: no upload fails because the destination blob exists, and when the
\* same request has succeeded twice (and no other request has uploaded or
\* sent a block) the storage account holds what it held after the first
\* run alone: the source blob and the one output blob.
C7_Idempotent ==
    /\ \A i \in Invocations : response[i].detail # BlobExistsText
    /\ \A i, j \in Invocations :
          (/\ i # j
           /\ Succeeded(i)
           /\ Succeeded(j)
           /\ req[i] = req[j]
           /\ \A k \in Invocations : (written[k] # {} \/ sent[k] > 0) => req[k] = req[i]) =>
              /\ Cardinality(written[i]) = 1
              /\ store = {SourceBlob(SrcA)} \cup written[i]

\* The second run worked in the directory name the first had freed: it
\* made its workspace after the first run's cleanup.
C7_Witness ==
    \E i, j \in Invocations :
        /\ i # j
        /\ req[i] = req[j]
        /\ Succeeded(i)
        /\ Succeeded(j)
        /\ temp_dir[i] = temp_dir[j]
        /\ written[j] = written[i]
        /\ store = {SourceBlob(SrcA)} \cup written[i]

\* Invocation i has made its workspace and has not ended.
InFlight(i) == temp_dir[i] # <<>> /\ pc[i] # "done"

\* Invocation i is in flight and the os.rmdir of its rmtree has not run.
Working(i) == InFlight(i) /\ pc[i] # "return"

\* C8: an invocation in flight has, until its own rmtree removes it, the
\* directory it made itself; two invocations in flight hold the same path
\* only when one of them has removed its directory, so the workspaces that
\* exist are different directories; and no invocation has read, written
\* or removed files in a directory another one made.
C8_WorkspacesDistinct ==
    /\ \A i \in Invocations : Working(i) => WorkspaceLeft(i)
    /\ \A i, j \in Invocations :
          (i # j /\ InFlight(i) /\ InFlight(j) /\ temp_dir[i] = temp_dir[j]) =>
              \/ pc[i] = "return" /\ ~WorkspaceLeft(i)
              \/ pc[j] = "return" /\ ~WorkspaceLeft(j)
    /\ ~foreign

\* Two invocations in flight, each with the files of its own workspace.
C8_Witness ==
    \E i, j \in Invocations :
        /\ i # j
        /\ Working(i)
        /\ Working(j)
        /\ temp_dir[i] # temp_dir[j]
        /\ fs[temp_dir[i]].input.present
        /\ fs[temp_dir[j]].input.present
        /\ fs[temp_dir[j]].output.present

\* A command without quotes or backslashes.
PlainCommand(c) == \A k \in 1..Len(c) : c[k] \notin {"\"", "'", "\\", "\t", "\r", "\n"}
\* A command that is one quoted text.
QuotedWhole(c) ==
    /\ Len(c) >= 2
    /\ c[1] \in {"\"", "'"}
    /\ c[Len(c)] = c[1]
    /\ \A k \in 2..(Len(c) - 1) : c[k] \notin {c[1], "\\"}

\* C9: the argument list of the child process is the binary, "-i", the
\* input file, the tokens of the command in order, and the output file
\* last; a quoted text is one token without its quotes.
C9_ArgumentVector ==
    \A i \in Invocations :
        process[i].called =>
            LET a   == process[i].args
                n   == Len(a)
                c   == ffmpeg_command(req[i])
                mid == SubSeq(a, 4, n - 1)
            IN  /\ n >= 4
                /\ ffmpeg_path[i] # <<>>
                /\ a[1] = ffmpeg_path[i]
                /\ a[2] = <<"-", "i">>
                /\ a[3] = temp_dir[i] \o <<"/", "i", "n", "p", "u", "t", ".", "m", "p", "4">>
                /\ a[n] = temp_dir[i] \o <<"/", "o", "u", "t", "p", "u", "t", ".", "m", "p", "4">>
                /\ mid = shlex_split(c).tokens
                /\ c = CmdScale =>
                      mid = << <<"-", "v", "f">>,
                               <<"s", "c", "a", "l", "e", "=", "1", "2", "8", "0", ":", "7", "2", "0">> >>
                /\ c = CmdTab => mid = << <<"-", "c">>, <<"c", "o", "p", "y">> >>
                /\ PlainCommand(c) => mid = NonEmpty(Split(c, " "))
                /\ QuotedWhole(c) => mid = <<Slice(c, 2, Len(c) - 1)>>

C9_Witness ==
    \E i \in Invocations :
        /\ process[i].called
        /\ ffmpeg_command(req[i]) = CmdScale
        /\ Len(process[i].args) = 6
        /\ process[i].args[5] = <<"s", "c", "a", "l", "e", "=", "1", "2", "8", "0", ":", "7", "2", "0">>

StageOrder ==
    <<"validate", "workspace", "parse_source", "credential", "download",
      "resolve_binary", "run", "parse_destination", "upload", "cleanup">>

\* The stages run before cleanup.
Worked(i) ==
    IF LastStage(i) = "cleanup" THEN SubSeq(trace[i], 1, Len(trace[i]) - 1) ELSE trace[i]

\* What the state shows of a stage that did its work.
StageSucceeded(i, stage) ==
    CASE stage = "validate" ->
           req[i].body \notin TruthyKinds /\ \A f \in FieldNames : ~Unsupplied(req[i], f)
      [] stage = "workspace" -> temp_dir[i] # <<>> /\ response[i].text # "raise"
      [] stage = "parse_source" -> locator[i] # NoLocator
      [] stage = "credential" -> credential[i]
      [] stage = "download" -> download[i] = "ok"
      [] stage = "resolve_binary" -> ffmpeg_path[i] # <<>>
      [] stage = "run" ->
           process[i].exited /\ process[i].decoded /\ process[i].returncode = 0
      [] stage = "parse_destination" -> destination[i] # NoDestination
      [] stage = "upload" -> written[i] # {}
      [] OTHER -> TRUE

\* The stage is still at work: the download waits for the bytes, the
\* transcoding for the child, the upload for upload_blob.
StageAtWork(i, stage) ==
    \/ stage = "download" /\ pc[i] = "readall"
    \/ stage = "run" /\ pc[i] = "wait"
    \/ stage = "upload" /\ pc[i] = "upload_blob"

\* A failure outcome: a returned response with a status of 400, 404 or 500.
FailureOutcome(resp) == resp.returned /\ resp.status \in {400, 404, 500}

\* C10: the stages of a request run in the fixed order, each at most once;
\* a stage runs only after every earlier one did its work; a request with
\* a stage that failed runs nothing more but cleanup, and it ends with a
\* failure outcome.
C10_StageOrder ==
    \A i \in Invocations :
        LET w == Worked(i)
        IN  /\ Len(w) <= 9
            /\ w = SubSeq(StageOrder, 1, Len(w))
            /\ \A k \in 1..(Len(w) - 1) : StageSucceeded(i, w[k])
            /\ (w # <<>> /\ ~StageSucceeded(i, w[Len(w)]) /\ ~StageAtWork(i, w[Len(w)])) =>
                  /\ pc[i] \in {"done", "cleanup", "rmdir", "return"}
                  /\ FailureOutcome(response[i])
            /\ Succeeded(i) =>
                  /\ trace[i] = StageOrder
                  /\ \A k \in 1..9 : StageSucceeded(i, StageOrder[k])

\* C11: a request whose workspace directory could not be created ends
\* with a returned response of status 500, and no later stage runs.
C11_WorkspaceFailureGives500 ==
    \A i \in Invocations :
        (Done(i) /\ LastStage(i) = "workspace" /\ temp_dir[i] = <<>>) =>
            /\ response[i].returned
            /\ response[i].status = 500
            /\ trace[i] = <<"validate", "workspace">>

\* The transcoding of invocation i ended with exit code 0.
Transcoded(i) == process[i].exited /\ process[i].returncode = 0

\* A destination URL that names no container of a storage account.
InvalidDestination(url) ==
    \/ UrlParseRaises(url)
    \/ ~HasNetloc(url)
    \/ urlparse(url).netloc = <<>>
    \/ Segments(url) = <<>>

\* C12: a request whose transcoding exited with code 0 and that uploaded
\* nothing (a destination URL that cannot be used, no client, no output
\* file to read, a failed upload) ends with 500 and the message "Video
\* processing completed but upload failed"; with an invalid destination
\* URL it never ends in 200 or 400.
C12_PostTranscodeFailure ==
    \A i \in Invocations :
        (Done(i) /\ Transcoded(i)) =>
            /\ response[i].returned
            /\ response[i].status \in {200, 500}
            /\ response[i].status = 200 => written[i] # {}
            /\ (written[i] = {} \/ InvalidDestination(output_container_name(req[i]))) =>
                  /\ response[i].status = 500
                  /\ response[i].text = "Video processing completed but upload failed: "

\* Invocation i has ended through the finally clause.
CleanedUp(i) == Done(i) /\ LastStage(i) = "cleanup"

\* C13: a request that has run cleanup returns what the upload decided,
\* whether or not its directory is still there: 200 "Video processed
\* successfully" after an upload, the upload's 500 otherwise; it never ends
\* by an exception.
C13_CleanupKeepsOutcome ==
    \A i \in Invocations :
        CleanedUp(i) =>
            /\ response[i].returned
            /\ written[i] # {} =>
                  response[i] = HttpResponse(200, "Video processed successfully", "")
            /\ written[i] = {} =>
                  /\ response[i].status = 500
                  /\ response[i].text = "Video processing completed but upload failed: "

\* Removal failed after a successful upload, and the request returned 200.
C13_Witness ==
    \E i \in Invocations :
        /\ CleanedUp(i)
        /\ WorkspaceLeft(i)
        /\ written[i] # {}
        /\ response[i].status = 200

\* The return statements of main: status and message of lines 35, 64, 86,
\* 89, 92, 113, 141, 146, 167 and 176.
ExitPoints ==
    {<<400, "Please pass inputBlobUrl, outputContainerName, and ffmpegCommand in the request body">>,
     <<400, "Invalid blob URL format. URL must include container name and blob path.">>,
     <<404, "Input blob not found at ">>,
     <<500, "Error downloading input file: ">>,
     <<500, "Unexpected error accessing blob storage: ">>,
     <<500, "FFmpeg binary not found">>,
     <<500, "FFmpeg error: ">>,
     <<500, "Error executing FFmpeg: ">>,
     <<500, "Video processing completed but upload failed: ">>,
     <<200, "Video processed successfully">>}

\* C14: a request that has ended has returned a response, and the response
\* is that of one of the ten return statements: one 200, nine failures
\* with a status of 400, 404 or 500.
C14_TenExits ==
    /\ Cardinality(ExitPoints) = 10
    /\ Cardinality({e \in ExitPoints : e[1] = 200}) = 1
    /\ \A e \in ExitPoints : e[1] \in {200, 400, 404, 500}
    /\ \A i \in Invocations :
          Done(i) =>
              /\ response[i].returned
              /\ <<response[i].status, response[i].text>> \in ExitPoints

\* The blob output.mp4 in the first path segment of a destination URL, in
\* the account named by the first label of its host.
OutputKey(url) ==
    [account   |-> Lower(Before(urlparse(url).netloc, ".")),
     container |-> Segments(url)[1],
     blob      |-> <<"o", "u", "t", "p", "u", "t", ".", "m", "p", "4">>]

\* C15: a request that has uploaded has written exactly one blob, the
\* output.mp4 of the destination URL's first path segment, whatever
\* further segments the URL has and whatever the source blob is called;
\* the storage account holds nothing else new.
C15_DestinationObject ==
    \A i \in Invocations :
        written[i] # {} =>
            LET url == output_container_name(req[i])
            IN  /\ Segments(url) # <<>>
                /\ \A b \in written[i] : b.key = OutputKey(url)
                /\ HasBlob(store, OutputKey(url))
                /\ \A b \in store :
                      \/ b = SourceBlob(input_blob_url(req[i]))
                      \/ \E j \in Invocations : b \in written[j]

\* A successful request whose destination URL had an object path as well.
C15_Witness ==
    \E i \in Invocations :
        /\ Succeeded(i)
        /\ written[i] # {}
        /\ Len(Segments(output_container_name(req[i]))) >= 2
        /\ HasBlob(store, OutputKey(output_container_name(req[i])))

\* Invocation i has returned the 400 of line 35.
FailedValidation(i) ==
    /\ Done(i)
    /\ response[i] = HttpResponse(400, "Please pass inputBlobUrl, outputContainerName, and ffmpegCommand in the request body", "")

\* Invocation i has made no directory, built no credential, parsed no
\* locator, started no download, launched no process and uploaded nothing.
NoSideEffects(i) ==
    /\ trace[i] = <<"validate">>
    /\ temp_dir[i] = <<>>
    /\ \A d \in TempNames : fs[d].owner # i
    /\ ~credential[i]
    /\ locator[i] = NoLocator
    /\ ffmpeg_path[i] = <<>>
    /\ ~process[i].called
    /\ destination[i] = NoDestination
    /\ written[i] = {}

\* C16: a request refused for a missing or empty field has had no side
\* effect; and a request with a field given neither in the body nor in the
\* query string goes no further than validation (bodies on which .get
\* raises aside).
C16_ValidationFailureHasNoEffects ==
    \A i \in Invocations :
        /\ FailedValidation(i) => NoSideEffects(i)
        /\ (/\ req[i] # NoRequest
            /\ req[i].body \notin TruthyKinds
            /\ \E f \in FieldNames : Unsupplied(req[i], f)) =>
              (pc[i] = "validate" \/ FailedValidation(i))

\* A request with the command missing was refused.
C16_Witness ==
    \E i \in Invocations :
        /\ FailedValidation(i)
        /\ ~Falsy(req[i].json["inputBlobUrl"])
        /\ ~Falsy(req[i].json["outputContainerName"])
        /\ Unsupplied(req[i], "ffmpegCommand")
        /\ NoSideEffects(i)

\* The body is a JSON object with at least one key.
NonEmptyObject(r) ==
    r.body = "object" /\ (r.extra \/ \E f \in FieldNames : r.json[f] # Absent)

\* Invocation i passed validation with a field its body does not give: the
\* values came from the query string.
UsedQuery(i) == Ran(i, "workspace") /\ \E f \in FieldNames : Falsy(req[i].json[f])

\* The command's tokens in the arguments of the process.
CommandTokens(i) == SubSeq(process[i].args, 4, Len(process[i].args) - 1)

\* With a non-empty JSON object as body the fields are the body's: a field
\* it lacks is missing even when the query string has it, and the command
\* run is the body's.
BodyOnly(i) ==
    NonEmptyObject(req[i]) =>
        /\ (\E f \in FieldNames : Falsy(req[i].json[f])) =>
              (pc[i] = "validate" \/ FailedValidation(i))
        /\ process[i].called =>
              CommandTokens(i) = shlex_split(req[i].json["ffmpegCommand"][1]).tokens

\* C17 as stated: body-only sourcing with a non-empty JSON object, and the
\* query string used only when the body is absent, unparsable or empty.
C17_QueryOnlyWithoutBody ==
    \A i \in Invocations :
        /\ BodyOnly(i)
        /\ UsedQuery(i) =>
              \/ req[i].body \in {"invalid", "null", "empty_array", "empty_string"}
              \/ (req[i].body = "object" /\ ~NonEmptyObject(req[i]))

\* C17, amended: body-only sourcing with a non-empty JSON object, and the
\* query string used exactly when the parsed body is falsy (absent or
\* unparsable, null, {}, [], "", 0 or false); then all three fields are the
\* query's.
C17_AllOrNothing ==
    \A i \in Invocations :
        /\ BodyOnly(i)
        /\ UsedQuery(i) =>
              /\ \/ req[i].body \in FalsyKinds
                 \/ (req[i].body = "object" /\ ~NonEmptyObject(req[i]))
              /\ \A f \in FieldNames : ~Falsy(req[i].params[f])
              /\ process[i].called =>
                    CommandTokens(i) = shlex_split(req[i].params["ffmpegCommand"][1]).tokens
        /\ (/\ req[i] # NoRequest
            /\ req[i].body \in FalsyKinds \/ (req[i].body = "object" /\ ~NonEmptyObject(req[i]))
            /\ \A f \in FieldNames : ~Falsy(req[i].params[f])) =>
              ~FailedValidation(i)

\* A request refused although the query string had the field its body
\* lacked; the body had the other two.
C17_Witness ==
    \E i \in Invocations :
        /\ FailedValidation(i)
        /\ NonEmptyObject(req[i])
        /\ Falsy(req[i].json["ffmpegCommand"])
        /\ ~Falsy(req[i].json["inputBlobUrl"])
        /\ ~Falsy(req[i].json["outputContainerName"])
        /\ \A f \in FieldNames : ~Falsy(req[i].params[f])

\* How often a character occurs in a text.
Count(s, c) == Cardinality({k \in 1..Len(s) : s[k] = c})

\* One kind of quote, an odd number of times, and no backslash.
OddQuotes(c) ==
    /\ Count(c, "\\") = 0
    /\ \/ (Count(c, "'") = 0 /\ Count(c, "\"") % 2 = 1)
       \/ (Count(c, "\"") = 0 /\ Count(c, "'") % 2 = 1)

\* No quote, and a single backslash at the end.
DanglingEscape(c) ==
    /\ Count(c, "'") = 0
    /\ Count(c, "\"") = 0
    /\ Count(c, "\\") = 1
    /\ c[Len(c)] = "\\"

Untokenizable(c) == ~shlex_split(c).ok \/ OddQuotes(c) \/ DanglingEscape(c)

\* C18: with a command that cannot be split into tokens no process is
\* launched and nothing is uploaded; the request that reaches the
\* tokenizer returns 500 "Error executing FFmpeg", and no request that got
\* as far as the ffmpeg block ends by an exception.
C18_TokenizationFailure ==
    \A i \in Invocations :
        (Ran(i, "workspace") /\ Untokenizable(ffmpeg_command(req[i]))) =>
            /\ ~process[i].called
            /\ ~Ran(i, "parse_destination")
            /\ ~Ran(i, "upload")
            /\ written[i] = {}
            /\ Ran(i, "run") =>
                  /\ Done(i)
                  /\ response[i] = HttpResponse(500, "Error executing FFmpeg: ", ErrorText)
            /\ (Done(i) /\ Ran(i, "resolve_binary")) =>
                  (response[i].returned /\ response[i].status = 500)

C18_Witness ==
    \E i \in Invocations :
        /\ Done(i)
        /\ LastStage(i) = "run"
        /\ ffmpeg_command(req[i]) = CmdUnbalanced
        /\ OddQuotes(ffmpeg_command(req[i]))
        /\ ~process[i].called
        /\ response[i].status = 500

\* What the request of invocation i makes of the source bytes: they pass
\* once through ffmpeg under the tokens of its own command.
ExpectedOutput(i) ==
    [bytes |-> DataA.bytes, filters |-> <<shlex_split(ffmpeg_command(req[i])).tokens>>]

BlobsAt(st, key) == {b \in st : b.key = key}

\* The place of invocation i among the completed uploads.
Place(i) == CHOOSE n \in 1..Len(completed) : completed[n] = i

\* C19: when two requests to the same destination container have both
\* returned 200 (and no other request has uploaded there), the container
\* holds one output.mp4, and its bytes are the whole output of the request
\* whose upload_blob returned last: not blocks of both, not anything else.
C19_LastUploadWins ==
    \A i, j \in Invocations :
        (/\ i # j
         /\ Succeeded(i)
         /\ Succeeded(j)
         /\ OutputKey(output_container_name(req[i])) = OutputKey(output_container_name(req[j]))
         /\ Place(i) < Place(j)
         /\ \A k \in Invocations : written[k] # {} => k \in {i, j}) =>
            LET key == OutputKey(output_container_name(req[i]))
            IN  /\ Cardinality(BlobsAt(store, key)) = 1
                /\ BlobData(store, key) = ExpectedOutput(j)

====
